---------------------------- MODULE Spec2Model ----------------------------
(***************************************************************************)
(* A model of similique: CMinHash (src/lib.rs), the circulant MinHash over *)
(* a boolean membership vector, the helpers of its test module, and the    *)
(* streaming MinHash the specification describes as component A.           *)
(*                                                                         *)
(* A Rust Vec is a TLA+ sequence; the Rust index i is the TLA+ index i+1.  *)
(* A call that can panic returns a record [ok, val]: ok = FALSE is the     *)
(* panic (index out of bounds), and val is then not meaningful.            *)
(***************************************************************************)
EXTENDS Integers, Sequences, FiniteSets

\* ------------------------------------------------------------------ bounds
\* Largest universe size of the bijective specification.
MaxD == 3
\* Largest signature length k (and largest shift handed to circulant_shift).
MaxK == 4
\* Largest length (and largest value) of a malformed permutation or vector.
MaxLen == 2
\* Largest length (and largest value) of pi in the circulant-shift specification.
MaxPiLen == 3
\* Largest signature length tried on the permutation pairs of the tests.
MaxSlots == 5
\* Streaming MinHash: number of distinct items, largest num_perm, word width.
NItems == 2
MaxPerm == 3
HashBits == 3

\* usize::MAX, the value compute reports for an empty set.  The model's
\* integers are 32 bits wide, so the sentinel is scaled to the largest of
\* them; every value a permutation holds in this model is far below it.
UsizeMax == 2147483647

VARIABLES
    sigma,      \* CMinHash.sigma
    pi,         \* CMinHash.pi
    k,          \* CMinHash.k
    built,      \* the arguments CMinHash::new was given (history)
    universe,   \* the length of the membership vectors the caller hands in
    call,       \* the last call of a method of CMinHash and what it returned
    kept,       \* an earlier compute result the caller still holds
    hashOf,     \* StreamingMinHash: the seeded hash H, item -> 64-bit word
    signature,  \* StreamingMinHash.signature
    seen        \* StreamingMinHash: the items updated so far (history)

cminVars == <<sigma, pi, k, built, universe, call, kept>>
streamVars == <<hashOf, signature, seen>>
vars == <<sigma, pi, k, built, universe, call, kept, hashOf, signature, seen>>

\* ----------------------------------------------------------------- values
Ok(v) == [ok |-> TRUE, val |-> v]
Panic == [ok |-> FALSE, val |-> <<>>]

SetMin(S) == CHOOSE x \in S : \A y \in S : x <= y

\* All sequences over S of length exactly n, and of length at most n.
SeqsOfLen(S, n) == [1..n -> S]
SeqsUpTo(S, n) == UNION {SeqsOfLen(S, m) : m \in 0..n}

BoolVecs(n) == SeqsOfLen(BOOLEAN, n)

IsBijection(p, d) ==
    /\ Len(p) = d
    /\ \A i \in 1..d : p[i] \in 0..(d - 1)
    /\ \A i, j \in 1..d : p[i] = p[j] => i = j

Perms(d) == {p \in SeqsOfLen(0..(d - 1), d) : IsBijection(p, d)}

\* ---------------------------------------------------------------- CMinHash
\* The for loop of apply_permutation, from index i on.  data[i] is read only
\* when position < data.len(), and panics when i is not an index of data.
RECURSIVE apply_loop(_, _, _, _)
apply_loop(data, permutation, i, permuted_data) ==
    IF i >= Len(permutation) THEN Ok(permuted_data)
    ELSE LET position == permutation[i + 1] IN
         IF position < Len(data)
         THEN IF i < Len(data)
              THEN apply_loop(data, permutation, i + 1,
                              [permuted_data EXCEPT ![position + 1] = data[i + 1]])
              ELSE Panic
         ELSE apply_loop(data, permutation, i + 1, permuted_data)

\* A gather instead of the scatter: result[i] = data[permutation[i]].
apply_permutation_gather(data, permutation) ==
    IF \E i \in 1..Len(permutation) : i > Len(data)
    THEN Panic
    ELSE Ok([p \in 1..Len(data) |->
              IF p <= Len(permutation) /\ permutation[p] < Len(data)
              THEN data[permutation[p] + 1] ELSE FALSE])

apply_permutation(data, permutation) ==
    apply_loop(data, permutation, 0, [p \in 1..Len(data) |-> FALSE])

\* The for loop of circulant_shift, from index i on.  The remainder is only
\* taken inside the loop, so an empty pi never divides by zero.
RECURSIVE shift_loop(_, _, _, _)
shift_loop(p, shift, i, shifted_pi) ==
    IF i >= Len(p) THEN shifted_pi
    ELSE LET new_position == (i + shift) % Len(p) IN
         shift_loop(p, shift, i + 1,
                    [shifted_pi EXCEPT ![new_position + 1] = p[i + 1]])

\* A shift that does not wrap: the values moved past the end are lost.
circulant_shift_nowrap(p, shift) ==
    [j \in 1..Len(p) |-> IF j - 1 >= shift THEN p[j - shift] ELSE 0]

\* A shift to the left: the value at i moves to (i - shift) mod d.
circulant_shift_left(p, shift) ==
    [j \in 1..Len(p) |-> p[((j - 1 + shift) % Len(p)) + 1]]

circulant_shift(p, shift) ==
    shift_loop(p, shift, 0, [j \in 1..Len(p) |-> 0])

\* The slot of an empty set reported as 0 instead of usize::MAX.
hash_value_zero(data_permuted, pi_shifted) ==
    LET trues == {i \in 0..(Len(data_permuted) - 1) : data_permuted[i + 1]} IN
    IF \E i \in trues : i >= Len(pi_shifted) THEN [ok |-> FALSE, val |-> 0]
    ELSE IF trues = {} THEN [ok |-> TRUE, val |-> 0]
    ELSE [ok |-> TRUE, val |-> SetMin({pi_shifted[i + 1] : i \in trues})]

\* The slot taken from the first true position instead of the minimum.
hash_value_first(data_permuted, pi_shifted) ==
    LET trues == {i \in 0..(Len(data_permuted) - 1) : data_permuted[i + 1]} IN
    IF \E i \in trues : i >= Len(pi_shifted) THEN [ok |-> FALSE, val |-> 0]
    ELSE IF trues = {} THEN [ok |-> TRUE, val |-> UsizeMax]
    ELSE [ok |-> TRUE, val |-> pi_shifted[SetMin(trues) + 1]]

\* The iterator chain of one slot: the minimum of pi_shifted[i] over the
\* positions i where data_permuted is true; pi_shifted[i] panics when i is not
\* an index of pi_shifted; usize::MAX when no position is true.
hash_value(data_permuted, pi_shifted) ==
    LET trues == {i \in 0..(Len(data_permuted) - 1) : data_permuted[i + 1]} IN
    IF \E i \in trues : i >= Len(pi_shifted) THEN [ok |-> FALSE, val |-> 0]
    ELSE IF trues = {} THEN [ok |-> TRUE, val |-> UsizeMax]
    ELSE [ok |-> TRUE, val |-> SetMin({pi_shifted[i + 1] : i \in trues})]

\* The loop of compute with pi left unshifted in every slot.
RECURSIVE compute_loop_unshifted(_, _, _, _, _)
compute_loop_unshifted(p, kk, data_permuted, k_index, hashes) ==
    IF k_index >= kk THEN Ok(hashes)
    ELSE LET hv == hash_value(data_permuted, p)
         IN  IF hv.ok
             THEN compute_loop_unshifted(p, kk, data_permuted, k_index + 1,
                                         Append(hashes, hv.val))
             ELSE Panic

\* The for loop of compute over k_index, from k_index on.
RECURSIVE compute_loop(_, _, _, _, _)
compute_loop(p, kk, data_permuted, k_index, hashes) ==
    IF k_index >= kk THEN Ok(hashes)
    ELSE LET pi_shifted == circulant_shift(p, k_index)
             hv == hash_value(data_permuted, pi_shifted)
         IN  IF hv.ok
             THEN compute_loop(p, kk, data_permuted, k_index + 1,
                               Append(hashes, hv.val))
             ELSE Panic

compute(s, p, kk, data) ==
    LET data_permuted == apply_permutation(data, s) IN
    IF data_permuted.ok
    THEN compute_loop(p, kk, data_permuted.val, 0, <<>>)
    ELSE Panic

\* ------------------------------------------------------- helpers of the tests
\* zip().filter(a == b).count(): zip stops at the shorter signature.
matching_hashes(hashes1, hashes2) ==
    LET n == IF Len(hashes1) <= Len(hashes2) THEN Len(hashes1) ELSE Len(hashes2)
    IN  Cardinality({i \in 1..n : hashes1[i] = hashes2[i]})

\* matching / hashes1.len() >= num / den, in integers.  With an empty hashes1
\* the ratio is 0/0 = NaN, and NaN >= threshold is false.
are_similar_hashes(hashes1, hashes2, num, den) ==
    IF Len(hashes1) = 0 THEN FALSE
    ELSE matching_hashes(hashes1, hashes2) * den >= num * Len(hashes1)

\* jaccard_similarity's two counts; the quotient is intersection / union.
intersection(v1, v2) ==
    LET n == IF Len(v1) <= Len(v2) THEN Len(v1) ELSE Len(v2)
    IN  Cardinality({i \in 1..n : v1[i] /\ v2[i]})

union(v1, v2) ==
    LET n == IF Len(v1) <= Len(v2) THEN Len(v1) ELSE Len(v2)
    IN  Cardinality({i \in 1..n : v1[i] \/ v2[i]})

\* The permutation pairs the tests build a CMinHash from.
TestPairs ==
    { <<(<<0, 2, 1>>), (<<1, 0, 2>>)>>,
      <<(<<2, 0, 1, 3>>), (<<1, 3, 0, 2>>)>>,
      <<(<<2, 0, 1, 3, 4>>), (<<1, 3, 0, 4, 2>>)>> }

\* ------------------------------------------------------- StreamingMinHash
Items == 1..NItems
Modulus == 2 ^ HashBits
U64Max == Modulus - 1

Min2(a, b) == IF a <= b THEN a ELSE b

\* permuted_i = hash + i without the wrap.
permuted_nowrap(hash, i) == hash + i

\* permuted_i = (hash + i) mod 2^64, i the Rust index of the slot.
permuted(hash, i) == (hash + i) % Modulus

update(sig, item) ==
    [i \in 1..Len(sig) |-> Min2(sig[i], permuted(hashOf[item], i - 1))]

\* ------------------------------------------------------------------- states
NoCall ==
    [op |-> "none", data |-> <<>>, shift |-> 0, ret |-> Ok(<<>>), paired |-> FALSE]
NoKept == [held |-> FALSE, data |-> <<>>, ret |-> Ok(<<>>)]

IdleStream ==
    /\ hashOf = [x \in Items |-> 0]
    /\ signature = <<>>
    /\ seen = {}

New(s, p, kk) ==
    /\ sigma = s
    /\ pi = p
    /\ k = kk
    /\ built = [sigma |-> s, pi |-> p, k |-> kk]
    /\ call = NoCall
    /\ kept = NoKept

\* CMinHash::new with two bijections of one universe.
Init ==
    /\ \E d \in 1..MaxD : \E s \in Perms(d), p \in Perms(d), kk \in 0..MaxK :
          universe = d /\ New(s, p, kk)
    /\ IdleStream

\* CMinHash::new with two bijections of one universe and at least one slot.
InitPair ==
    /\ \E d \in 1..MaxD : \E s \in Perms(d), p \in Perms(d), kk \in 1..MaxK :
          universe = d /\ New(s, p, kk)
    /\ IdleStream

\* CMinHash::new with any two vectors, and membership vectors of any length.
InitAny ==
    /\ \E d \in 0..MaxLen :
       \E s \in SeqsUpTo(0..MaxLen, MaxLen), p \in SeqsUpTo(0..MaxLen, MaxLen),
          kk \in 0..MaxK :
          universe = d /\ New(s, p, kk)
    /\ IdleStream

\* CMinHash::new(vec![], pi, 0) as test_circulant_shift builds it, any pi.
InitShift ==
    /\ \E p \in SeqsUpTo(0..MaxPiLen, MaxPiLen) : universe = 0 /\ New(<<>>, p, 0)
    /\ IdleStream

\* CMinHash::new with a permutation pair of the tests and any k.
InitTests ==
    /\ \E sp \in TestPairs, kk \in 0..MaxSlots :
          universe = Len(sp[1]) /\ New(sp[1], sp[2], kk)
    /\ IdleStream

\* ------------------------------------------------------------------ actions
\* compute(&data) with the fields rotated in place by the last shift.
ComputeCallInPlace(data) ==
    /\ call' = [op |-> "compute", data |-> data, shift |-> 0,
                ret |-> compute(sigma, pi, k, data), paired |-> kept.held]
    /\ pi' = IF k = 0 THEN pi ELSE circulant_shift(pi, k - 1)
    /\ UNCHANGED <<sigma, k, built, universe, kept>>
    /\ UNCHANGED streamVars

\* cminhash.compute(&data): &self and &data are shared borrows.  paired
\* records whether the caller held an earlier signature to compare with.
ComputeCall(data) ==
    /\ call' = [op |-> "compute", data |-> data, shift |-> 0,
                ret |-> compute(sigma, pi, k, data), paired |-> kept.held]
    /\ UNCHANGED <<sigma, pi, k, built, universe, kept>>
    /\ UNCHANGED streamVars

\* cminhash.apply_permutation(&data, &cminhash.sigma)
ApplyPermutationCall(data) ==
    /\ call' = [op |-> "apply_permutation", data |-> data, shift |-> 0,
                ret |-> apply_permutation(data, sigma), paired |-> FALSE]
    /\ UNCHANGED <<sigma, pi, k, built, universe, kept>>
    /\ UNCHANGED streamVars

\* cminhash.circulant_shift(shift)
CirculantShiftCall(shift) ==
    /\ call' = [op |-> "circulant_shift", data |-> <<>>, shift |-> shift,
                ret |-> Ok(circulant_shift(pi, shift)), paired |-> FALSE]
    /\ UNCHANGED <<sigma, pi, k, built, universe, kept>>
    /\ UNCHANGED streamVars

\* let hashes1 = cminhash.compute(&entry1): the caller keeps the signature.
KeepHashes ==
    /\ call.op = "compute"
    /\ call.ret.ok
    /\ kept' = [held |-> TRUE, data |-> call.data, ret |-> call.ret]
    /\ UNCHANGED <<sigma, pi, k, built, universe, call>>
    /\ UNCHANGED streamVars

\* Any call of a method of CMinHash.
Next ==
    \/ \E data \in BoolVecs(universe) : ComputeCall(data)
    \/ \E data \in BoolVecs(universe) : ApplyPermutationCall(data)
    \/ \E shift \in 0..MaxK : CirculantShiftCall(shift)

\* The caller of the tests: it computes the signature of an entry, keeps it,
\* computes the signature of the next entry and compares the two; the second
\* signature of a comparison (call.paired) ends the run.
NextPair ==
    \/ \E data \in BoolVecs(universe) : ~call.paired /\ ComputeCall(data)
    \/ KeepHashes

Spec == Init /\ [][Next]_vars
SpecAny == InitAny /\ [][Next]_vars
SpecShift == InitShift /\ [][Next]_vars
SpecPair == InitPair /\ [][NextPair]_vars
SpecTests == InitTests /\ [][NextPair]_vars

\* StreamingMinHash::new(num_perm), under any hash function.
InitStream ==
    /\ universe = 0 /\ New(<<>>, <<>>, 0)
    /\ hashOf \in [Items -> 0..U64Max]
    /\ \E num_perm \in 0..MaxPerm : signature = [i \in 1..num_perm |-> U64Max]
    /\ seen = {}

\* signature.update(item)
Update(item) ==
    /\ signature' = update(signature, item)
    /\ seen' = seen \cup {item}
    /\ UNCHANGED hashOf
    /\ UNCHANGED cminVars

NextStream == \E item \in Items : Update(item)

SpecStream == InitStream /\ [][NextStream]_vars


\* ------------------------------------------------------------------- claims
Trues(v) == {i \in 0..(Len(v) - 1) : v[i + 1]}
Bijective == IsBijection(sigma, universe) /\ IsBijection(pi, universe)
ComputedPair == kept.held /\ call.op = "compute" /\ call.paired /\ call.ret.ok
Abs(x) == IF x < 0 THEN -x ELSE x
Differing(v1, v2) == Cardinality({i \in 1..Len(v1) : v1[i] # v2[i]})
Count(s, v) == Cardinality({i \in 1..Len(s) : s[i] = v})

\* C1: with bijective sigma and pi on {0..d-1}, d >= 1, compute(data) returns
\* exactly k values; slot j is the minimum of pi[(i - j) mod d] over the
\* positions i where apply_permutation(data, sigma) is true, and usize::MAX
\* in every slot when no position of data is true.
C1_ComputeIsCirculantMin ==
    (call.op = "compute" /\ universe >= 1 /\ Bijective) =>
        LET permuted_data == apply_permutation(call.data, sigma).val IN
        /\ call.ret.ok
        /\ Len(call.ret.val) = k
        /\ \A j \in 0..(k - 1) :
              call.ret.val[j + 1] =
                 IF Trues(permuted_data) = {} THEN UsizeMax
                 ELSE SetMin({pi[((i - j) % universe) + 1] : i \in Trues(permuted_data)})
        /\ (Trues(call.data) = {} =>
               \A j \in 1..k : call.ret.val[j] = UsizeMax)

\* test_compute_basic: sigma = [0,2,1], pi = [1,0,2], k = 3 on [t,f,t].
C1_Witness ==
    /\ call.op = "compute"
    /\ sigma = <<0, 2, 1>> /\ pi = <<1, 0, 2>> /\ k = 3
    /\ call.data = <<TRUE, FALSE, TRUE>>
    /\ call.ret = Ok(<<0, 1, 0>>)

\* C2: compute never panics, whatever sigma and pi are (shorter than data,
\* empty, not bijective): it returns a signature of length k.
C2_ComputeTotal ==
    (call.op = "compute" /\ Len(sigma) <= Len(call.data)
       /\ Len(pi) <= Len(call.data)) =>
        (call.ret.ok /\ Len(call.ret.val) = k)

\* C3: for every sigma at least as long as data, apply_permutation returns a
\* vector as long as data in which position sigma[i] holds data[i] (the last
\* such i) for the i with sigma[i] < len(data), the other indices of sigma are
\* skipped, and no index of sigma makes the call panic.
C3_SkipPolicy ==
    (call.op = "apply_permutation" /\ Len(sigma) >= Len(call.data)) =>
        /\ call.ret.ok
        /\ Len(call.ret.val) = Len(call.data)
        /\ \A p \in 0..(Len(call.data) - 1) :
              LET from == {i \in 0..(Len(sigma) - 1) : sigma[i + 1] = p} IN
              call.ret.val[p + 1] =
                 IF from = {} THEN FALSE
                 ELSE call.data[(CHOOSE i \in from : \A j \in from : j <= i) + 1]

\* C4: for a non-empty data of length d and a bijective sigma on {0..d-1},
\* apply_permutation is a lossless scatter: result[sigma[i]] = data[i] for
\* every i, and the result has as many true values as data.
C4_LosslessScatter ==
    (call.op = "apply_permutation" /\ universe >= 1
       /\ IsBijection(sigma, universe)) =>
        /\ call.ret.ok
        /\ Len(call.ret.val) = universe
        /\ \A i \in 0..(universe - 1) :
              call.ret.val[sigma[i + 1] + 1] = call.data[i + 1]
        /\ Cardinality(Trues(call.ret.val)) = Cardinality(Trues(call.data))

\* test_apply_permutation: sigma = [2,0,1] on [t,f,t] gives [f,t,t].
C4_Witness ==
    /\ call.op = "apply_permutation"
    /\ sigma = <<2, 0, 1>>
    /\ call.data = <<TRUE, FALSE, TRUE>>
    /\ call.ret = Ok(<<FALSE, TRUE, TRUE>>)

\* C5: for every pi and every shift s in [0, len(pi)), circulant_shift(s) has
\* the multiset of values of pi, circulant_shift(0) is pi, and shifting the
\* result by (len(pi) - s) mod len(pi) gives pi back.
C5_ShiftIsRotation ==
    (call.op = "circulant_shift" /\ call.shift < Len(pi)) =>
        /\ Len(call.ret.val) = Len(pi)
        /\ \A v \in {pi[i] : i \in 1..Len(pi)} \cup
                  {call.ret.val[i] : i \in 1..Len(call.ret.val)} :
              Count(call.ret.val, v) = Count(pi, v)
        /\ (call.shift = 0 => call.ret.val = pi)
        /\ circulant_shift(call.ret.val, (Len(pi) - call.shift) % Len(pi)) = pi

\* test_circulant_shift: pi = [1,2,0] shifted by 1 is [0,1,2].
C5_Witness ==
    /\ call.op = "circulant_shift"
    /\ pi = <<1, 2, 0>> /\ call.shift = 1
    /\ call.ret = Ok(<<0, 1, 2>>)

\* C6: a compute call leaves sigma, pi and k as CMinHash::new stored them, its
\* result is the one a freshly built CMinHash gives for the same data, and it
\* equals, slot for slot, the signature an earlier call returned for an equal
\* membership vector (match ratio 1.0).
C6_ComputeDeterministicPure ==
    /\ sigma = built.sigma /\ pi = built.pi /\ k = built.k
    /\ call.op = "compute" =>
          call.ret = compute(built.sigma, built.pi, built.k, call.data)
    /\ (ComputedPair /\ kept.data = call.data) =>
          /\ call.ret = kept.ret
          /\ matching_hashes(kept.ret.val, call.ret.val) = k
          /\ (k >= 1 => are_similar_hashes(kept.ret.val, call.ret.val, 1, 1))

\* A second compute of an equal, non-empty vector, after another call.
C6_Witness ==
    /\ ComputedPair
    /\ kept.data = call.data
    /\ Trues(call.data) # {} /\ universe = MaxD /\ k = MaxK
    /\ call.ret.val # [j \in 1..k |-> call.ret.val[1]]

\* C7 as claimed: for every bijective sigma and pi, every k >= 1 and every two
\* non-empty membership vectors that differ in at most 20% of their positions,
\* at least 40% of the slots of the two signatures agree.
C7_NearDuplicatesAnyPair ==
    (ComputedPair /\ Bijective /\ k >= 1
       /\ Trues(kept.data) # {} /\ Trues(call.data) # {}
       /\ 5 * Differing(kept.data, call.data) <= universe) =>
        are_similar_hashes(kept.ret.val, call.ret.val, 2, 5)

IsDedupInstance ==
    sigma = <<2, 0, 1, 3, 4>> /\ pi = <<1, 3, 0, 4, 2>> /\ k = 5

\* C7 as amended: for the CMinHash of test_deduplication_with_cminhash
\* (sigma = [2,0,1,3,4], pi = [1,3,0,4,2], k = 5), every two non-empty
\* membership vectors of length 5 that differ in at most 20% of their
\* positions (one position) agree in at least 40% of the slots.
C7_NearDuplicatesDedupInstance ==
    (ComputedPair /\ IsDedupInstance
       /\ Trues(kept.data) # {} /\ Trues(call.data) # {}
       /\ 5 * Differing(kept.data, call.data) <= universe) =>
        are_similar_hashes(kept.ret.val, call.ret.val, 2, 5)

\* Two non-empty vectors one position apart whose signatures agree in
\* exactly two of the five slots.
C7_Witness ==
    /\ ComputedPair /\ IsDedupInstance
    /\ Trues(kept.data) # {} /\ Trues(call.data) # {}
    /\ Differing(kept.data, call.data) = 1
    /\ matching_hashes(kept.ret.val, call.ret.val) = 2

\* C8: for bijective sigma and pi and k >= 1, two membership vectors with no
\* common true position, at least one of them non-empty, have signatures that
\* agree in less than 80% of the slots.
C8_UnrelatedNotSimilar ==
    (ComputedPair /\ Bijective /\ k >= 1
       /\ Trues(kept.data) \cap Trues(call.data) = {}
       /\ Trues(kept.data) \cup Trues(call.data) # {}) =>
        ~are_similar_hashes(kept.ret.val, call.ret.val, 4, 5)

\* The all-false vector against a non-empty one, as entry4 against entry1.
C8_Witness ==
    /\ ComputedPair /\ Bijective /\ k = MaxK /\ universe = MaxD
    /\ Trues(kept.data) = {}
    /\ Cardinality(Trues(call.data)) >= 2

\* 5 * |intersection / union - matching / k| <= 1, in integers.
WithinFifth(v1, v2, hashes1, hashes2) ==
    5 * Abs(intersection(v1, v2) * k - matching_hashes(hashes1, hashes2) * union(v1, v2))
       <= k * union(v1, v2)

\* C9 as claimed: for every bijective (sigma, pi), every k >= 4 and every two
\* membership vectors with a non-empty union, the share of agreeing slots is
\* within 0.2 of the Jaccard similarity of the two vectors.
C9_EstimateAnyPair ==
    (ComputedPair /\ Bijective /\ k >= 4 /\ union(kept.data, call.data) > 0) =>
        WithinFifth(kept.data, call.data, kept.ret.val, call.ret.val)

IsConformanceInstance ==
    sigma = <<2, 0, 1, 3>> /\ pi = <<1, 3, 0, 2>> /\ k = 4

\* C9 as amended: for the CMinHash of
\* test_conformance_with_theoretical_expectations (sigma = [2,0,1,3],
\* pi = [1,3,0,2], k = 4), every two membership vectors of length 4 with a
\* non-empty union have a share of agreeing slots within 0.2 of their Jaccard
\* similarity.
C9_EstimateConformanceInstance ==
    (ComputedPair /\ IsConformanceInstance /\ union(kept.data, call.data) > 0) =>
        WithinFifth(kept.data, call.data, kept.ret.val, call.ret.val)

\* The two vectors of the test: Jaccard 1/3, one slot of four agrees.
C9_Witness ==
    /\ ComputedPair /\ IsConformanceInstance
    /\ kept.data = <<TRUE, FALSE, TRUE, FALSE>>
    /\ call.data = <<TRUE, TRUE, FALSE, FALSE>>
    /\ kept.ret.val = <<0, 1, 1, 0>>
    /\ call.ret.val = <<0, 2, 0, 2>>

\* C10: after any sequence of updates the signature keeps its length, slot i
\* is the minimum over the items updated so far of (H(item) + i) mod 2^64 (the
\* maximum value when there is none), which depends only on the set of items
\* and not on their order; and no update increases a slot.
C10_StreamingMinimum ==
    /\ [](\A i \in 1..Len(signature) :
             signature[i] =
                IF seen = {} THEN U64Max
                ELSE SetMin({(hashOf[x] + (i - 1)) % Modulus : x \in seen}))
    /\ [][/\ Len(signature') = Len(signature)
          /\ \A i \in 1..Len(signature) : signature'[i] <= signature[i]]_vars

\* Every item updated, with a slot whose minimum is a wrapped sum.
C10_Witness ==
    /\ seen = Items
    /\ Len(signature) = MaxPerm
    /\ \E i \in 1..Len(signature) :
          /\ signature[i] < U64Max
          /\ \A x \in Items : hashOf[x] + (i - 1) > signature[i]
          /\ \E x \in Items : hashOf[x] + (i - 1) >= Modulus

=============================================================================
